---- MODULE Spec2Model ----
(***************************************************************************)
(* The PushProx client (cmd/client/main.go): the Coordinator's poll loop   *)
(* with its exponential backoff, the scrape goroutines it spawns and the   *)
(* pushes they send back to the proxy.                                     *)
(*                                                                         *)
(* Durations are whole numbers of an abstract time unit.  A host is the    *)
(* sequence of the colon-separated parts of request.URL.Host, so           *)
(* <<"h1">> is "h1" and <<"h1", "9100">> is "h1:9100".                     *)
(***************************************************************************)
EXTENDS Integers, Sequences, FiniteSets, TLC

\* ------------------------------------------------------------- bounds
\* Number of scrape goroutines the model lets doPoll spawn.
MaxTasks == 1
\* Largest X-Prometheus-Scrape-Timeout-Seconds value the proxy sends.
MaxTimeout == 1
\* Cap on pollErrorCounter (the counter itself is unbounded).
MaxPollErrors == 2
\* Longest query, in pairs, of the requests the scrape executor is given.
MaxQueryLen == 2
\* Most bytes the upstream proxy sends on the socket after its CONNECT response.
MaxTrailing == 2

\* ------------------------------------------------------ configuration
\* --fqdn
myFqdn == "h1"
\* --proxy.retry.initial-wait
retryInitialWait == 2
\* --proxy.retry.max-wait
retryMaxWait == 4
\* backoff.DefaultInitialInterval (500ms), the interval NewExponentialBackOff
\* resets to before newBackOffFromFlags overwrites InitialInterval.
DefaultInitialInterval == 500
\* time.Until of the zero time.Time that Deadline() returns for a context
\* without a deadline: the most negative Duration.
minDuration == -1000000

\* values of --local-scrape: unset, or any non-empty string
LocalScrapeFlags == {"", "on"}

\* what the proxy can put in a polled request
RequestHosts == {<<"h1">>, <<"h1", "9100">>, <<"h2", "9100">>}
\* The raw query of a URL is the sequence of its "&"-separated pairs, a pair
\* being <<key, value>>; <<"%zz", "">> is a pair url.ParseQuery cannot decode.
\* The keys, in the (byte) order url.Values.Encode sorts them into.
QueryKeys == <<"_scheme", "module", "target">>
QueryValues == {"https", "x"}
QueryPairs ==
    {<<QueryKeys[i], v>> : i \in 1..Len(QueryKeys), v \in QueryValues}
      \cup {<<"%zz", "">>}
Queries == UNION {[1..n -> QueryPairs] : n \in 0..MaxQueryLen}
\* the query of the requests the poll loop is answered with (the scrape
\* executor is given every query in ScrapeSpec)
PolledQueries == {<<<<"target", "x">>, <<"_scheme", "https">>>>}
RequestSchemes == {"http", "https"}
\* decimal numerals the timeout header is written with
Numerals == <<"1", "2", "3", "4">>
TimeoutHeaders == {"bad"} \cup {Numerals[i] : i \in 1..MaxTimeout}
\* the id header of the request polled for goroutine t
RequestIds == <<"id1", "id2", "id3", "id4">>
\* what the scrape target can answer: a status and, possibly, an id header of its own
TargetResponses == {[status |-> 200, idHdr |-> ""], [status |-> 404, idHdr |-> "other"]}

Tasks == 1..MaxTasks

VARIABLES
    localScrape,         \* *localScrape
    loopPc,              \* where Coordinator.loop / backoff.RetryNotify stands
    currentInterval,     \* ExponentialBackOff.currentInterval
    next,                \* the wait RetryNotify's timer is running for, 0 when it is not
    runFails,            \* failures of the operation within this RetryNotify call
    pollResp,            \* what the last proxyClient.Post of doPoll returned
    pollErrorCounter,
    scrapeErrorCounter,
    pushErrorCounter,
    spawned,             \* number of `go c.doScrape` executed
    task,                \* the scrape goroutines
    dial,                \* one call of the CONNECT dialer of the proxy transport
    crashed              \* an unrecovered panic has ended the process

vars == <<localScrape, loopPc, currentInterval, next, runFails, pollResp,
          pollErrorCounter, scrapeErrorCounter, pushErrorCounter, spawned,
          task, dial, crashed>>

loopVars == <<loopPc, currentInterval, next, runFails, pollResp, pollErrorCounter>>

\* ---------------------------------------------------- backoff policy
\* newBackOffFromFlags: b.MaxElapsedTime = time.Duration(0)
MaxElapsedTime == 0
\* newBackOffFromFlags leaves RandomizationFactor at the library default,
\* backoff.DefaultRandomizationFactor = 0.5, written here in percent.
RandomizationFactor == 50

\* ExponentialBackOff.Reset, called by RetryNotify before its first attempt.
Reset == retryInitialWait

\* ExponentialBackOff.incrementCurrentInterval with Multiplier = 1.5:
\*   if float64(cur) >= float64(MaxInterval)/Multiplier { cur = MaxInterval }
\*   else { cur = Duration(float64(cur) * Multiplier) }
IncrementCurrentInterval(cur) ==
    IF 3 * cur >= 2 * retryMaxWait THEN retryMaxWait ELSE (3 * cur) \div 2

\* getRandomValueFromInterval(RandomizationFactor, rand.Float64(), cur):
\*   delta = factor*cur; min = cur-delta; max = cur+delta
\*   Duration(min + random*(max-min+1)),  random in [0,1)
\* the set of durations the call can return.
GetRandomValueFromInterval(cur) ==
    IF RandomizationFactor = 0 THEN {cur}
    ELSE ((cur * (100 - RandomizationFactor)) \div 100) ..
         ((cur * (100 + RandomizationFactor) + 99) \div 100)

\* the notify callback counting a failure twice
NotifyTwice(counter) == counter + 2

\* loop line 239, the notify callback: pollErrorCounter.Inc()
Notify(counter) == counter + 1

\* ExponentialBackOff.NextBackOff returns backoff.Stop only when
\* MaxElapsedTime is non-zero and has been used up.
NextBackOffMayStop == MaxElapsedTime # 0

\* --------------------------------------------------------- poll client
NoResp == [kind |-> "none", status |-> 0, decodable |-> FALSE]
\* proxyClient.Post: a network error, or a response with a status whose body
\* http.ReadRequest can or cannot decode
PollResponses ==
    {[kind |-> "neterr", status |-> 0, decodable |-> FALSE]}
      \cup [kind : {"resp"}, status : {200, 500}, decodable : BOOLEAN]
Descriptors ==
    [host : RequestHosts, timeoutHdr : TimeoutHeaders, scheme : {"http"},
     query : PolledQueries]
\* every request the scrape executor is checked with on its own
ScrapeDescriptors ==
    [host : RequestHosts, timeoutHdr : TimeoutHeaders, scheme : RequestSchemes,
     query : Queries]

\* the error of http.ReadRequest not checked
DoPollErrNetOnly(resp) == resp.kind = "neterr"

\* doPoll returns an error: Post failed (211-215) or ReadRequest failed (218-222).
\* resp.StatusCode is never read.
DoPollErr(resp) == resp.kind = "neterr" \/ ~resp.decodable

\* ------------------------------------------------------ scrape executor
NoScrapeResp == [status |-> 0, idHdr |-> ""]
NoPush == [status |-> 0, body |-> <<>>, id |-> "", timeoutHdr |-> 0,
           client |-> "", bound |-> FALSE]
IdleTask ==
    [pc |-> "idle", id |-> "", timeoutHdr |-> "", host |-> <<>>, urlHost |-> <<>>,
     polled |-> [scheme |-> "", query |-> <<>>], scheme |-> "", rawQuery |-> <<>>,
     hasDeadline |-> FALSE, remaining |-> 0, err |-> "", targetCalls |-> 0,
     dispatched |-> <<>>, scrapeResp |-> NoScrapeResp, pushCalls |-> 0,
     push |-> NoPush, pushNetOk |-> FALSE, delivered |-> FALSE]

\* the request http.ReadRequest decoded, handed to `go c.doScrape`
NewTask(t, d) ==
    [IdleTask EXCEPT !.pc = "start", !.id = RequestIds[t],
                     !.timeoutHdr = d.timeoutHdr, !.host = d.host, !.urlHost = d.host,
                     !.polled = [scheme |-> d.scheme, query |-> d.query],
                     !.scheme = d.scheme, !.rawQuery = d.query]

\* util.GetHeaderTimeout: strconv.ParseFloat of the timeout header, as a Duration
GetHeaderTimeout(h) ==
    IF \E i \in 1..Len(Numerals) : Numerals[i] = h
    THEN [err |-> FALSE, timeout |-> CHOOSE i \in 1..Len(Numerals) : Numerals[i] = h]
    ELSE [err |-> TRUE, timeout |-> 0]

\* the parse error dropped, the zero Duration used as the timeout
TimeoutParseIgnored(tm) == FALSE

\* doScrape line 118: `if err != nil`
TimeoutParseFailed(tm) == tm.err

\* url.URL.Query: url.ParseQuery with its error dropped.  The values of each
\* key in the order they come; a pair that cannot be decoded is skipped.
RECURSIVE ValuesIn(_, _)
ValuesIn(raw, k) ==
    IF raw = <<>> THEN <<>>
    ELSE (IF Head(raw)[1] = k THEN <<Head(raw)[2]>> ELSE <<>>) \o ValuesIn(Tail(raw), k)
Query(raw) ==
    [k \in {QueryKeys[i] : i \in 1..Len(QueryKeys)} |-> ValuesIn(raw, k)]

\* url.Values.Get: the first value of the key, "" when it has none
Get(params, k) == IF params[k] = <<>> THEN "" ELSE params[k][1]

\* url.Values.Del
Del(params, k) == [params EXCEPT ![k] = <<>>]

\* url.Values.Encode: "key=value" pairs sorted by key, the values of one key
\* in their order
RECURSIVE EncodeFrom(_, _)
EncodeFrom(params, i) ==
    IF i > Len(QueryKeys) THEN <<>>
    ELSE [j \in 1..Len(params[QueryKeys[i]]) |-> <<QueryKeys[i], params[QueryKeys[i]][j]>>]
           \o EncodeFrom(params, i + 1)
Encode(params) == EncodeFrom(params, 1)

\* the scheme set but the parameter left in the query
SchemeOverrideKept(tk) ==
    IF Get(Query(tk.rawQuery), "_scheme") = "https"
    THEN [tk EXCEPT !.scheme = "https", !.rawQuery = Encode(Query(tk.rawQuery))]
    ELSE tk

\* doScrape lines 127-132: the _scheme parameter
SchemeOverride(tk) ==
    LET params == Query(tk.rawQuery) IN
    IF Get(params, "_scheme") = "https"
    THEN [tk EXCEPT !.scheme = "https", !.rawQuery = Encode(Del(params, "_scheme"))]
    ELSE tk

\* url.URL.Hostname: the host without its port
URLHostname(host) == host[1]

\* the comparison the wrong way round
HostMismatchInverted(host) == URLHostname(host) = myFqdn

\* doScrape line 134: `request.URL.Hostname() != *myFqdn`
HostMismatch(host) == URLHostname(host) # myFqdn

\* http.StatusInternalServerError
StatusInternalServerError == 500

\* handleErr lines 102-106: the synthesized response
ErrResponse(body) == [status |-> StatusInternalServerError, body |-> body, idHdr |-> ""]

\* the id header only added when the response has none
PushIdHeaderIfAbsent(resp, tk) == IF resp.idHdr # "" THEN resp.idHdr ELSE tk.id

\* doPush line 168: resp.Header.Set("id", origRequest.Header.Get("id"))
PushIdHeader(resp, tk) == tk.id

\* doPush lines 170-171: time.Until(deadline) of origRequest's context
PushTimeoutHeader(tk) == IF tk.hasDeadline THEN tk.remaining ELSE minDuration

\* doPush up to proxyClient.Do(request): the POST now in flight
DoPush(resp, tk, client) ==
    [tk EXCEPT !.pc = "pushing",
               !.pushCalls = @ + 1,
               !.push = [status |-> resp.status, body |-> resp.body,
                         id |-> PushIdHeader(resp, tk),
                         timeoutHdr |-> PushTimeoutHeader(tk),
                         client |-> client, bound |-> tk.hasDeadline]]

\* handleErr up to the Do of its doPush (scrapeErrorCounter.Inc is in the actions)
HandleErr(tk, client, errKind, body) ==
    DoPush(ErrResponse(body), [tk EXCEPT !.err = errKind], client)

\* the context's deadline has passed
Expired(tk) == tk.hasDeadline /\ tk.remaining <= 0

\* strings.Split(request.URL.Host, ":")
SplitHost(host) == host

\* doScrape lines 139-144: a non-empty --local-scrape sends the request to
\* localhost, keeping the port; indexing part [1] of a host that has no port
\* panics (index out of range).
LocalScrapePanics(host, ls) == ls # "" /\ Len(SplitHost(host)) < 2
LocalScrapeHost(host, ls) ==
    IF ls # "" THEN <<"localhost", SplitHost(host)[2]>> ELSE host

\* doScrape from its entry to the point where it blocks in a client's Do, or
\* panics: lines 116-146.
DoScrapeEntry(tk, ls) ==
    LET tm == GetHeaderTimeout(tk.timeoutHdr) IN
    IF TimeoutParseFailed(tm)
    THEN HandleErr(tk, "proxyClient", "parse", <<"invalid syntax">>)
    ELSE LET ctx == SchemeOverride([tk EXCEPT !.hasDeadline = TRUE,
                                              !.remaining = tm.timeout]) IN
         IF HostMismatch(ctx.urlHost)
         THEN HandleErr(ctx, "proxyClient", "mismatch",
                        <<"scrape target doesn't match proxy client fqdn">>)
         ELSE IF LocalScrapePanics(ctx.urlHost, ls)
         THEN [ctx EXCEPT !.pc = "panicked"]
         ELSE [ctx EXCEPT !.pc = "scraping",
                          !.urlHost = LocalScrapeHost(ctx.urlHost, ls),
                          !.targetCalls = @ + 1,
                          !.dispatched = LocalScrapeHost(ctx.urlHost, ls)]

\* what scrapeTargetClient.Do can return: an error once the context has
\* expired, otherwise an error of the transport or the target's response
TargetErrors == {"connection refused", "context deadline exceeded"}
AllTargetOutcomes ==
    {[err |-> e, status |-> 0, idHdr |-> ""] : e \in TargetErrors}
      \cup {[err |-> "", status |-> r.status, idHdr |-> r.idHdr] : r \in TargetResponses}
TargetOutcomes(tk) ==
    {out \in AllTargetOutcomes :
        IF Expired(tk) THEN out.err = "context deadline exceeded"
                       ELSE out.err # "context deadline exceeded"}

\* doScrape lines 147-158, after scrapeTargetClient.Do has returned `out`, up
\* to the Do of the push
DoScrapeAfterTarget(tk, out, ls) ==
    IF out.err # ""
    THEN HandleErr(tk, "scrapeTargetClient", out.err,
                   <<"failed to scrape">> \o tk.urlHost \o <<out.err>>)
    ELSE DoPush([status |-> out.status, body |-> <<"metrics">>, idHdr |-> out.idHdr],
                [tk EXCEPT !.urlHost = IF ls # "" THEN tk.host ELSE @,
                           !.scrapeResp = [status |-> out.status, idHdr |-> out.idHdr]],
                "proxyClient")

\* a failed push sent again
AfterPushRetried(tk, netOk) ==
    IF netOk /\ ~Expired(tk)
    THEN [tk EXCEPT !.pc = "done", !.pushNetOk = netOk, !.delivered = TRUE]
    ELSE [tk EXCEPT !.pushCalls = @ + 1]

\* the goroutine after the Do of doPush has returned: doPush returns the
\* error, if any, and its caller returns (handleErr 107-112, doScrape 158-163)
AfterPush(tk, netOk) ==
    [tk EXCEPT !.pc = "done", !.pushNetOk = netOk,
               !.delivered = netOk /\ ~Expired(tk)]

\* ------------------------------------------------------- CONNECT dialer
\* What travels on the socket from the upstream proxy, in units the reader
\* cannot split: a status line, the blank line that ends the header, a line
\* that is no status line, and a byte of what follows the response.
StatusLine(code) == <<"HTTP/1.1", code>>
BlankLine == <<"CRLF", 0>>
JunkLine == <<"junk", 0>>
Byte == <<"byte", 0>>
ProxyStatusCodes == {200, 204, 403}
Trailing(n) == [i \in 1..n |-> Byte]
\* everything an upstream proxy may send once it has the CONNECT request
ProxyStreams ==
    {<<>>, <<JunkLine>>}
      \cup {<<StatusLine(c)>> : c \in ProxyStatusCodes}
      \cup {<<StatusLine(c), BlankLine>> \o Trailing(n) :
                c \in ProxyStatusCodes, n \in 0..MaxTrailing}

\* the dialer has not been called
NoDial ==
    [pc |-> "idle", tcpOk |-> FALSE, tcpDials |-> 0, wire |-> <<>>, closes |-> FALSE,
     arrived |-> 0, buffered |-> 0, read |-> 0, result |-> ""]

\* http.ReadResponse(br, nil) on what br has read off the socket so far: the
\* status code, an error, or "more" when it has to read on.  It reads the
\* status line and the header up to the blank line, and no body.
ReadResponse(buf, eof) ==
    IF Len(buf) >= 1 /\ buf[1][1] # "HTTP/1.1"
    THEN [state |-> "err", status |-> 0]
    ELSE IF Len(buf) >= 2
    THEN [state |-> "ok", status |-> buf[1][2]]
    ELSE IF eof THEN [state |-> "err", status |-> 0]
    ELSE [state |-> "more", status |-> 0]

\* every response taken for a success
ProxyRefusedNever(status) == FALSE

\* line 330: `res.StatusCode != 200`
ProxyRefused(status) == status # 200

\* the bytes br holds, and whether the socket is at its end for br
Buffered(d) == SubSeq(d.wire, 1, d.buffered)
AtEOF(d) == d.closes /\ d.buffered = Len(d.wire) /\ d.arrived = Len(d.wire)

\* ------------------------------------------------------------- initial
Init ==
    /\ localScrape \in LocalScrapeFlags
    /\ loopPc = "enter"
    /\ currentInterval = DefaultInitialInterval
    /\ next = 0
    /\ runFails = 0
    /\ pollResp = NoResp
    /\ pollErrorCounter = 0
    /\ scrapeErrorCounter = 0
    /\ pushErrorCounter = 0
    /\ spawned = 0
    /\ task = [t \in Tasks |-> IdleTask]
    /\ dial = NoDial
    /\ crashed = FALSE

\* The scrape executor on its own: a poll has just succeeded and handed it
\* one request.
ScrapeInit ==
    /\ localScrape \in LocalScrapeFlags
    /\ loopPc = "enter"
    /\ currentInterval = Reset
    /\ next = 0
    /\ runFails = 0
    /\ pollResp = [kind |-> "resp", status |-> 200, decodable |-> TRUE]
    /\ pollErrorCounter = 0
    /\ scrapeErrorCounter = 0
    /\ pushErrorCounter = 0
    /\ spawned = 1
    /\ \E d \in ScrapeDescriptors :
          task = [t \in Tasks |-> IF t = 1 THEN NewTask(1, d) ELSE IdleTask]
    /\ dial = NoDial
    /\ crashed = FALSE

\* ------------------------------------------------------ coordinator loop
\* Coordinator.loop calls backoff.RetryNotify, which starts with b.Reset().
RetryNotifyEnter ==
    /\ ~crashed
    /\ loopPc = "enter"
    /\ currentInterval' = Reset
    /\ next' = 0
    /\ runFails' = 0
    /\ pollResp' = NoResp
    /\ loopPc' = "poll"
    /\ UNCHANGED <<dial, localScrape, pollErrorCounter, scrapeErrorCounter,
                   pushErrorCounter, spawned, task, crashed>>

\* One call of the operation, doPoll, by RetryNotify.  On nil RetryNotify
\* returns, and the loop calls it again; on an error it goes on to back off.
DoPoll(resp) ==
    /\ ~crashed
    /\ loopPc = "poll"
    /\ pollResp' = resp
    /\ IF DoPollErr(resp)
       THEN /\ pollErrorCounter < MaxPollErrors
            /\ loopPc' = "failed"
            /\ UNCHANGED <<spawned, task>>
       ELSE /\ spawned < MaxTasks
            /\ spawned' = spawned + 1
            /\ \E d \in Descriptors :
                 task' = [task EXCEPT ![spawned + 1] = NewTask(spawned + 1, d)]
            /\ loopPc' = "enter"
    /\ UNCHANGED <<dial, localScrape, currentInterval, next, runFails, pollErrorCounter,
                   scrapeErrorCounter, pushErrorCounter, crashed>>

\* RetryNotify after the operation failed: next = b.NextBackOff(), which also
\* increments the interval; unless that is Stop, notify (pollErrorCounter.Inc,
\* loop line 239) and start the timer.  On Stop RetryNotify returns the error,
\* which the loop logs before calling RetryNotify again.
RetryNotifyBackOff ==
    /\ ~crashed
    /\ loopPc = "failed"
    /\ \E stop \in (IF NextBackOffMayStop THEN BOOLEAN ELSE {FALSE}) :
         \E random \in GetRandomValueFromInterval(currentInterval) :
           IF stop
           THEN /\ loopPc' = "enter"
                /\ UNCHANGED <<next, pollErrorCounter>>
           ELSE /\ next' = random
                /\ pollErrorCounter' = Notify(pollErrorCounter)
                /\ loopPc' = "wait"
    /\ currentInterval' = IncrementCurrentInterval(currentInterval)
    /\ runFails' = runFails + 1
    /\ pollResp' = NoResp
    /\ UNCHANGED <<dial, localScrape, scrapeErrorCounter, pushErrorCounter, spawned,
                   task, crashed>>

\* RetryNotify's timer fires: the next attempt.
BackoffWake ==
    /\ ~crashed
    /\ loopPc = "wait"
    /\ loopPc' = "poll"
    /\ next' = 0
    /\ UNCHANGED <<dial, localScrape, currentInterval, runFails, pollResp, pollErrorCounter,
                   scrapeErrorCounter, pushErrorCounter, spawned, task, crashed>>

\* ------------------------------------------------------ scrape goroutine
\* The goroutine runs doScrape until it blocks in a Do or panics; a panic in
\* a goroutine ends the whole process.
DoScrapeStart(t) ==
    /\ ~crashed
    /\ task[t].pc = "start"
    /\ LET after == DoScrapeEntry(task[t], localScrape) IN
         /\ task' = [task EXCEPT ![t] = after]
         /\ scrapeErrorCounter' = IF after.err # "" THEN scrapeErrorCounter + 1
                                                   ELSE scrapeErrorCounter
         /\ crashed' = (after.pc = "panicked")
    /\ UNCHANGED <<dial, localScrape, loopVars, pushErrorCounter, spawned>>

\* scrapeTargetClient.Do returns.
TargetReturn(t, out) ==
    /\ ~crashed
    /\ task[t].pc = "scraping"
    /\ out \in TargetOutcomes(task[t])
    /\ task' = [task EXCEPT ![t] = DoScrapeAfterTarget(task[t], out, localScrape)]
    /\ scrapeErrorCounter' = IF out.err # "" THEN scrapeErrorCounter + 1
                                              ELSE scrapeErrorCounter
    /\ UNCHANGED <<dial, localScrape, loopVars, pushErrorCounter, spawned, crashed>>

\* The Do of doPush returns: with an error when the request's context has
\* expired or the network fails (netOk = FALSE), otherwise the proxy has
\* the pushed response.  An error is counted by the caller and not retried.
PushReturn(t, netOk) ==
    /\ ~crashed
    /\ task[t].pc = "pushing"
    /\ LET ok == netOk /\ ~Expired(task[t]) IN
         /\ task' = [task EXCEPT ![t] = AfterPush(task[t], netOk)]
         /\ pushErrorCounter' = IF ok THEN pushErrorCounter ELSE pushErrorCounter + 1
    /\ UNCHANGED <<dial, localScrape, loopVars, scrapeErrorCounter, spawned, crashed>>

\* Time passes for a goroutine whose context has a deadline.
Tick(t) ==
    /\ ~crashed
    /\ task[t].pc \in {"scraping", "pushing"}
    /\ task[t].hasDeadline
    /\ task[t].remaining > 0
    /\ task' = [task EXCEPT ![t].remaining = @ - 1]
    /\ UNCHANGED <<dial, localScrape, loopVars, scrapeErrorCounter, pushErrorCounter,
                   spawned, crashed>>

Next ==
    \/ RetryNotifyEnter
    \/ \E resp \in PollResponses : DoPoll(resp)
    \/ RetryNotifyBackOff
    \/ BackoffWake
    \/ \E t \in Tasks : DoScrapeStart(t)
    \/ \E t \in Tasks, out \in AllTargetOutcomes : TargetReturn(t, out)
    \/ \E t \in Tasks, netOk \in BOOLEAN : PushReturn(t, netOk)
    \/ \E t \in Tasks : Tick(t)

\* The transport calls the dialer: net.Dial (line 314).  On an error the
\* dialer returns it (315-318); otherwise the proxy is on the other end, with
\* the stream it is going to send.
DialTCP(ok, stream, closes) ==
    /\ dial.pc = "idle"
    /\ dial' = IF ok
               THEN [dial EXCEPT !.pc = "connect", !.tcpOk = TRUE, !.tcpDials = @ + 1,
                                 !.wire = stream, !.closes = closes]
               ELSE [dial EXCEPT !.pc = "returned", !.tcpDials = @ + 1,
                                 !.result = "err"]
    /\ UNCHANGED <<localScrape, loopVars, scrapeErrorCounter, pushErrorCounter,
                   spawned, task, crashed>>

\* fmt.Fprintf(proxyConn, "CONNECT ...") (line 319), then bufio.NewReader and
\* the call of http.ReadResponse (321-322).
WriteConnect ==
    /\ dial.pc = "connect"
    /\ dial' = [dial EXCEPT !.pc = "reading"]
    /\ UNCHANGED <<localScrape, loopVars, scrapeErrorCounter, pushErrorCounter,
                   spawned, task, crashed>>

\* The next unit of the proxy's stream reaches the socket.
Arrive ==
    /\ dial.pc \in {"reading", "returned"}
    /\ dial.tcpOk
    /\ dial.arrived < Len(dial.wire)
    /\ dial' = [dial EXCEPT !.arrived = @ + 1]
    /\ UNCHANGED <<localScrape, loopVars, scrapeErrorCounter, pushErrorCounter,
                   spawned, task, crashed>>

\* ReadResponse needs more: br fills its buffer (4096 bytes) with one Read of
\* proxyConn, which returns everything that has arrived.
Fill ==
    /\ dial.pc = "reading"
    /\ ReadResponse(Buffered(dial), AtEOF(dial)).state = "more"
    /\ dial.arrived > dial.buffered
    /\ dial' = [dial EXCEPT !.buffered = dial.arrived]
    /\ UNCHANGED <<localScrape, loopVars, scrapeErrorCounter, pushErrorCounter,
                   spawned, task, crashed>>

\* ReadResponse returns, and the dialer with it: lines 324-335.  br is
\* dropped with whatever it holds; proxyConn is what is returned.
DialReturn ==
    /\ dial.pc = "reading"
    /\ LET res == ReadResponse(Buffered(dial), AtEOF(dial)) IN
         /\ res.state # "more"
         /\ dial' = [dial EXCEPT !.pc = "returned",
                                 !.result = IF res.state = "err" \/ ProxyRefused(res.status)
                                            THEN "err" ELSE "conn"]
    /\ UNCHANGED <<localScrape, loopVars, scrapeErrorCounter, pushErrorCounter,
                   spawned, task, crashed>>

\* The proxy transport (DialContext: dialer, line 343) reads from the
\* connection the dialer returned.
TransportRead ==
    /\ dial.pc = "returned"
    /\ dial.result = "conn"
    /\ dial.arrived > dial.buffered + dial.read
    /\ dial' = [dial EXCEPT !.read = dial.arrived - dial.buffered]
    /\ UNCHANGED <<localScrape, loopVars, scrapeErrorCounter, pushErrorCounter,
                   spawned, task, crashed>>

Spec == Init /\ [][Next]_vars

\* one call of the CONNECT dialer
DialNext ==
    \/ \E ok \in BOOLEAN, stream \in ProxyStreams, closes \in BOOLEAN :
          DialTCP(ok, stream, closes)
    \/ WriteConnect
    \/ Arrive
    \/ Fill
    \/ DialReturn
    \/ TransportRead

DialSpec == Init /\ [][DialNext]_vars

\* the steps of the scrape goroutines
ScrapeNext ==
    \/ \E t \in Tasks : DoScrapeStart(t)
    \/ \E t \in Tasks, out \in AllTargetOutcomes : TargetReturn(t, out)
    \/ \E t \in Tasks, netOk \in BOOLEAN : PushReturn(t, netOk)
    \/ \E t \in Tasks : Tick(t)

ScrapeSpec == ScrapeInit /\ [][ScrapeNext]_vars

\* The Go scheduler runs every runnable goroutine, a timer that was started
\* fires, time passes, and a call of a client whose request context has a
\* deadline returns (by that deadline at the latest).  A call without a
\* deadline need not return: neither client has a Timeout.
FairSpec ==
    /\ Spec
    /\ WF_vars(RetryNotifyEnter)
    /\ WF_vars(RetryNotifyBackOff)
    /\ WF_vars(BackoffWake)
    /\ WF_vars(\E t \in Tasks : DoScrapeStart(t))
    /\ WF_vars(\E t \in Tasks : Tick(t))
    /\ WF_vars(\E t \in Tasks, out \in AllTargetOutcomes : TargetReturn(t, out))
    /\ WF_vars(\E t \in Tasks, netOk \in BOOLEAN :
                  task[t].push.bound /\ PushReturn(t, netOk))

\* ================================================================ claims
\* the request polled for goroutine t names another host than --fqdn
NamesOtherHost(t) == task[t].pc # "idle" /\ task[t].host[1] # myFqdn
\* goroutine t has called doPush
HasPushed(t) == task[t].pc \in {"pushing", "done"}
\* the numeric value of the timeout header polled for goroutine t
HeaderSeconds(t) == CHOOSE i \in 1..MaxTimeout : Numerals[i] = task[t].timeoutHdr

\* C1: a request whose hostname differs from --fqdn never reaches the target
\* transport, and what doScrape pushes for it, through the proxy-facing client,
\* is a 500 carrying the request's id.
C1_MismatchNeverScraped ==
    \A t \in Tasks :
        NamesOtherHost(t) =>
            /\ task[t].targetCalls = 0
            /\ task[t].pc \in {"start", "pushing", "done"}
            /\ HasPushed(t) =>
                  /\ task[t].pushCalls = 1
                  /\ task[t].push.status = 500
                  /\ task[t].push.id = RequestIds[t]
                  /\ task[t].push.client = "proxyClient"
C1_Witness ==
    \E t \in Tasks :
        /\ NamesOtherHost(t)
        /\ task[t].timeoutHdr # "bad"
        /\ task[t].err = "mismatch"
        /\ task[t].pc = "done"
        /\ task[t].delivered

\* C2: when the host matches and the target answers, the push carries the
\* target's status and body, the request's id (whatever id header the target
\* sent) and a remaining-deadline value no larger than the polled timeout.
C2_SuccessPushedUnchanged ==
    \A t \in Tasks :
        (HasPushed(t) /\ task[t].err = "") =>
            /\ task[t].host[1] = myFqdn
            /\ task[t].targetCalls = 1
            /\ task[t].pushCalls = 1
            /\ task[t].push.status = task[t].scrapeResp.status
            /\ task[t].push.status \in {r.status : r \in TargetResponses}
            /\ task[t].push.body = <<"metrics">>
            /\ task[t].push.id = RequestIds[t]
            /\ task[t].push.timeoutHdr <= HeaderSeconds(t)
C2_Witness ==
    \E t \in Tasks :
        /\ task[t].pc = "done"
        /\ task[t].err = ""
        /\ task[t].scrapeResp.idHdr = "other"
        /\ task[t].push.id = RequestIds[t]
        /\ task[t].delivered

\* C3: a request whose timeout header does not parse is answered with a pushed
\* 500 without any target call, and gets no deadline, default or otherwise.
C3_MalformedDeadlineFails ==
    \A t \in Tasks :
        (task[t].pc # "idle" /\ task[t].timeoutHdr = "bad") =>
            /\ task[t].targetCalls = 0
            /\ ~task[t].hasDeadline
            /\ task[t].pc \in {"start", "pushing", "done"}
            /\ HasPushed(t) =>
                  /\ task[t].err = "parse"
                  /\ task[t].pushCalls = 1
                  /\ task[t].push.status = 500
                  /\ task[t].push.id = RequestIds[t]
C3_Witness ==
    \E t \in Tasks :
        /\ task[t].timeoutHdr = "bad"
        /\ task[t].host[1] = myFqdn
        /\ task[t].pc = "done"
        /\ task[t].push.status = 500

\* C4: a scrape goroutine that has ended has called doPush exactly once, and
\* none calls it more than once.
C4_PushExactlyOnce ==
    \A t \in Tasks :
        /\ task[t].pushCalls <= 1
        /\ task[t].pc \in {"done", "panicked"} => task[t].pushCalls = 1

\* C5: after a failed target call, timeouts included, the proxy's push endpoint
\* gets the synthesized 500 with the request's id, unless the push itself fails
\* on the network or runs out of time that was left when it started.
C5_TargetErrorDelivered ==
    \A t \in Tasks :
        (/\ task[t].pc = "done"
         /\ task[t].err \in TargetErrors
         /\ task[t].pushNetOk
         /\ (task[t].err = "context deadline exceeded" \/ ~Expired(task[t]))) =>
            /\ task[t].delivered
            /\ task[t].push.status = 500
            /\ task[t].push.id = RequestIds[t]

\* C6: the poll loop is running in every reachable state.
C6_LoopAlwaysRunning ==
    /\ ~crashed
    /\ loopPc \in {"enter", "poll", "failed", "wait"}

\* C7: a poll that met a network error, an undecodable body or an error status
\* of the proxy is reported as failed by doPoll.
C7_PollFailureReported ==
    (\/ pollResp.kind = "neterr"
     \/ /\ pollResp.kind = "resp"
        /\ (~pollResp.decodable \/ pollResp.status >= 400)) =>
        loopPc = "failed"

\* initial wait times 1.5 per earlier failure of the run, clamped to the maximum
RECURSIVE ClampedExponential(_)
ClampedExponential(k) ==
    IF k <= 1
    THEN IF retryInitialWait <= retryMaxWait THEN retryInitialWait ELSE retryMaxWait
    ELSE IF (3 * ClampedExponential(k - 1)) \div 2 <= retryMaxWait
         THEN (3 * ClampedExponential(k - 1)) \div 2
         ELSE retryMaxWait

\* C8: the wait before the k-th retry of a run is the clamped exponential, so
\* never above the configured maximum.
C8_WaitIsClampedExponential ==
    loopPc = "wait" =>
        /\ next = ClampedExponential(runFails)
        /\ next <= retryMaxWait

\* C9: the first wait of a run that follows a successful poll is the
\* configured initial wait.
C9_FirstWaitAfterSuccessIsInitial ==
    (loopPc = "wait" /\ runFails = 1 /\ spawned > 0) => next = retryInitialWait

\* C10: every failed poll is eventually followed by another poll attempt.
C10_FailedPollRetried == (loopPc = "failed") ~> (loopPc = "poll")

\* The same while the process lives: the backoff itself never gives up.
\* (Holds under FairSpec.)
FailedPollRetriedUnlessCrashed == (loopPc = "failed") ~> (loopPc = "poll" \/ crashed)

\* C11: every push doPush issues is bound by the deadline of the scrape's context.
C11_PushBoundByDeadline ==
    \A t \in Tasks : HasPushed(t) => task[t].push.bound

\* C15: with --local-scrape the target call goes to localhost with the
\* original port, and once it has returned the request carries the original
\* host again: nothing pushed afterward names localhost.
C15_LocalScrapeHostRestored ==
    \A t \in Tasks :
        (localScrape # "" /\ task[t].targetCalls = 1) =>
            /\ task[t].dispatched = <<"localhost", task[t].host[2]>>
            /\ HasPushed(t) =>
                  /\ task[t].urlHost = task[t].host
                  /\ \A i \in 1..Len(task[t].push.body) :
                        task[t].push.body[i] # "localhost"

\* C17: every push goes through the proxy-facing client.
C17_PushThroughProxyClient ==
    \A t \in Tasks : HasPushed(t) => task[t].push.client = "proxyClient"

\* C12: no goroutine pushes twice, so the proxy's push endpoint gets at most
\* one push per id; every failed push is counted exactly once; and only a
\* panic, never a failed push, stops the process.
C12_AtMostOncePush ==
    /\ \A t \in Tasks : task[t].pushCalls <= 1
    /\ \A t \in Tasks :
          Cardinality({u \in Tasks : task[u].delivered
                                       /\ task[u].push.id = RequestIds[t]}) <= 1
    /\ pushErrorCounter =
          Cardinality({t \in Tasks : task[t].pc = "done" /\ ~task[t].delivered})
    /\ crashed => \E t \in Tasks : task[t].pc = "panicked"
C12_Witness ==
    \E t \in Tasks :
        /\ task[t].pc = "done"
        /\ ~task[t].delivered
        /\ task[t].pushCalls = 1
        /\ pushErrorCounter = 1
        /\ ~crashed
        /\ loopPc = "poll"

\* the last poll met a network error or a body that does not decode
LastPollBroken(resp) == resp.kind = "neterr" \/ (resp.kind = "resp" /\ ~resp.decodable)
\* the loop can take its next step
LoopCanStep ==
    /\ loopPc = "enter" => ENABLED RetryNotifyEnter
    /\ loopPc = "failed" => ENABLED RetryNotifyBackOff
    /\ loopPc = "wait" => ENABLED BackoffWake
    /\ (loopPc = "poll" /\ pollErrorCounter < MaxPollErrors) =>
          ENABLED (\E resp \in PollResponses : DoPoll(resp))

\* C18: a successful poll starts exactly one goroutine and goes on without
\* it, a failed poll starts none, and whatever the goroutines are doing the
\* loop of a living process can take its next step.
C18_PollSpawnsAndGoesOn ==
    /\ [][/\ spawned' \in {spawned, spawned + 1}
          /\ (spawned' = spawned + 1) =>
                /\ loopPc = "poll" /\ loopPc' = "enter"
                /\ pollResp'.kind = "resp" /\ pollResp'.decodable
                /\ task[spawned'].pc = "idle" /\ task'[spawned'].pc = "start"
                /\ \A t \in Tasks \ {spawned'} : task'[t] = task[t]
          /\ (loopPc = "poll" /\ loopPc' # "poll" /\ LastPollBroken(pollResp')) =>
                /\ loopPc' = "failed"
                /\ spawned' = spawned /\ task' = task]_vars
    /\ [](~crashed => LoopCanStep)
C18_Witness ==
    \E t \in Tasks :
        /\ task[t].pc \in {"scraping", "pushing"}
        /\ loopPc = "wait"
        /\ spawned = 1
        /\ ~crashed

\* every goroutine that is not blocked in a client's Do can run
TasksCanStep ==
    \A t \in Tasks :
        /\ task[t].pc = "start" => ENABLED DoScrapeStart(t)
        /\ task[t].pc = "scraping" =>
              ENABLED (\E out \in AllTargetOutcomes : TargetReturn(t, out))
        /\ task[t].pc = "pushing" => ENABLED (\E netOk \in BOOLEAN : PushReturn(t, netOk))

\* C19: the loop goes from polling back to polling on success and through
\* exactly one backoff wait on failure; a failed poll adds exactly one to
\* pollErrorCounter and nothing else changes it; while the loop waits the
\* goroutines can run.
C19_LoopStateMachine ==
    /\ [][/\ loopPc = "enter" => loopPc' \in {"enter", "poll"}
          /\ loopPc = "poll" => loopPc' \in {"poll", "enter", "failed"}
          /\ loopPc = "failed" => loopPc' \in {"failed", "wait"}
          /\ loopPc = "wait" => loopPc' \in {"wait", "poll"}
          /\ (loopPc = "failed" /\ loopPc' = "wait") =>
                pollErrorCounter' = pollErrorCounter + 1
          /\ ~(loopPc = "failed" /\ loopPc' = "wait") =>
                pollErrorCounter' = pollErrorCounter]_vars
    /\ []((loopPc = "wait" /\ ~crashed) => TasksCanStep)
C19_Witness ==
    /\ loopPc = "poll"
    /\ runFails = 1
    /\ pollErrorCounter = 1
    /\ \E t \in Tasks : task[t].pc = "pushing"

\* C20: every spawned goroutine ends (or the process does).
C20_TaskTerminates ==
    \A t \in Tasks :
        (task[t].pc = "start") ~> (task[t].pc \in {"done", "panicked"} \/ crashed)

\* The same for the goroutines whose timeout header parses, whose every call
\* has a deadline.  (Holds under FairSpec.)
BoundTaskTerminates ==
    \A t \in Tasks :
        (task[t].pc = "start" /\ task[t].timeoutHdr # "bad")
            ~> (task[t].pc \in {"done", "panicked"} \/ crashed)

\* the values a query gives a key, in their order
ParamValues(q, k) ==
    LET s == SelectSeq(q, LAMBDA p : p[1] = k) IN [i \in 1..Len(s) |-> s[i][2]]
\* the query's _scheme parameter (the first, if it has several) is https
SchemeIsHttps(q) ==
    \E i \in 1..Len(q) :
        /\ q[i] = <<"_scheme", "https">>
        /\ \A j \in 1..(i - 1) : q[j][1] # "_scheme"

AnswersOK(w) == Len(w) >= 2 /\ w[1] = StatusLine(200) /\ w[2] = BlankLine

\* C13: the dialer returns a connection only when the TCP dial succeeded and
\* the proxy sent a complete response with status 200; in every other case
\* it returns an error, the transport reads nothing from the socket, and
\* net.Dial has been called once.
C13_FailedHandshakeNoConn ==
    /\ dial.tcpDials <= 1
    /\ dial.pc = "returned" =>
          /\ dial.result \in {"err", "conn"}
          /\ (dial.result = "conn") = (dial.tcpOk /\ AnswersOK(dial.wire))
    /\ dial.result # "conn" => dial.read = 0
C13_Witness ==
    /\ dial.pc = "returned"
    /\ dial.result = "err"
    /\ dial.tcpOk
    /\ Len(dial.wire) >= 2
    /\ dial.wire[1] = StatusLine(403)
    /\ dial.arrived = Len(dial.wire)
    /\ dial.tcpDials = 1

\* C14: a dialer that returns the connection has taken from the socket the
\* proxy's response and nothing more.
C14_OnlyResponseConsumed ==
    dial.result = "conn" => dial.buffered = 2

====
